---- MODULE Spec2Model ----
(***************************************************************************)
(* A model of PaPLogger (src/pap_logger/__init__.py): a facade over the    *)
(* root logger of the logging package with a console handler and an        *)
(* optional TimedRotatingFileHandler and SysLogHandler, reconfigured at    *)
(* run time through property setters.                                      *)
(*                                                                         *)
(* Every method of the class is an operator from a "world" (the facade's   *)
(* fields, the logger, the three handlers, the file system and the records *)
(* logged so far by the running setter) to the world it leaves; every      *)
(* property setter is one action that applies its method to the current    *)
(* world.                                                                  *)
(***************************************************************************)
EXTENDS Integers, Sequences, FiniteSets, TLC

VARIABLES pap, logger, sysout_handler, logfile_handler, syslog_handler, fs, out

vars == <<pap, logger, sysout_handler, logfile_handler, syslog_handler, fs, out>>

----------------------------------------------------------------------------
(* Level constants of the logging package.                                 *)
NOTSET == 0
DEBUG == 10
INFO == 20
WARNING == 30
ERROR == 40
CRITICAL == 50

Levels == {DEBUG, INFO, WARNING, ERROR, CRITICAL}

(* Bounds of the model.                                                    *)
MaxPrefixes == 1
MaxPortOffset == 1

(* Defaults of the constructor.                                            *)
DefaultPort == 514
DefaultBackupCount == 15

----------------------------------------------------------------------------
(* Strings that the code computes with are sequences of characters.        *)
(* gethostname() is "h"; a log file is called "a" to begin with.            *)
Hostname == <<"h">>

HostPrefix == Hostname \o <<"_">>

BaseName == <<"a">>

RECURSIVE Repeat(_, _)
Repeat(s, k) == IF k = 0 THEN <<>> ELSE s \o Repeat(s, k - 1)

IsPrefixOf(p, s) == Len(p) <= Len(s) /\ SubSeq(s, 1, Len(p)) = p

(* str.replace(old, ""): drops every non-overlapping occurrence of old,    *)
(* scanning from the left.                                                 *)
RECURSIVE StrRemoveAll(_, _)
StrRemoveAll(s, old) ==
    IF Len(s) < Len(old) THEN s
    ELSE IF IsPrefixOf(old, s) THEN StrRemoveAll(SubSeq(s, Len(old) + 1, Len(s)), old)
    ELSE <<Head(s)>> \o StrRemoveAll(Tail(s), old)

(* The file names offered to the log_file setter: the base name, and the   *)
(* base name behind up to MaxPrefixes copies of "<hostname>_".             *)
FileNames == {Repeat(HostPrefix, k) \o BaseName : k \in 0..MaxPrefixes}

(* Directories: "d" is absent at first and can be created, the parent of   *)
(* "x" refuses mkdir with PermissionError.                                 *)
Dirs == {"d", "x"}

MkdirDenied(dir) == dir = "x"

NoPath == [parent |-> "None", name |-> <<>>]

Path(parent, name) == [parent |-> parent, name |-> name]

InputPaths == {Path(d, n) : d \in Dirs, n \in FileNames}

(* Syslog hosts: getaddrinfo fails for "unknown" with socket.gaierror.     *)
NoHost == "None"
Hosts == {"loghost", "unknown"}

Resolves(host) == host = "loghost"

Ports == DefaultPort .. (DefaultPort + MaxPortOffset)

(* Rotation periods: "D" is accepted by TimedRotatingFileHandler, "Q" is   *)
(* rejected with ValueError.                                               *)
Whens == {"D", "Q"}

ValidWhen(when) == when = "D"

----------------------------------------------------------------------------
(* Handler objects.  A handler that has not been created is the field      *)
(* holding None: created = FALSE.                                          *)
NoLogfileHandler ==
    [created |-> FALSE, level |-> NOTSET, formatter |-> "none",
     baseFilename |-> NoPath, when |-> "none", backupCount |-> 0]

NoSyslogHandler ==
    [created |-> FALSE, level |-> NOTSET, formatter |-> "none",
     address |-> <<NoHost, 0>>]

World ==
    [pap |-> pap, logger |-> logger, sysout |-> sysout_handler,
     logfile |-> logfile_handler, syslog |-> syslog_handler, fs |-> fs,
     records |-> <<>>, calls |-> <<>>, raised |-> "none"]

(* A method being entered: its name goes on the list of calls made.        *)
Called(w, method) == [w EXCEPT !.calls = Append(@, method)]

HandlerLevel(w, h) ==
    IF h = "sysout" THEN w.sysout.level
    ELSE IF h = "logfile" THEN w.logfile.level
    ELSE w.syslog.level

InHandlers(handlers, h) == \E i \in 1..Len(handlers) : handlers[i] = h

(* Logger.isEnabledFor and Logger.callHandlers of the logging package: a   *)
(* record passes the logger's level, then each attached handler's level.   *)
(* A call that the logger's level filters out reaches no sink.             *)
Sinks(w, lvl) ==
    {w.logger.handlers[i] : i \in {j \in 1..Len(w.logger.handlers) :
                                     lvl >= HandlerLevel(w, w.logger.handlers[j])}}

LoggerLog(w, lvl) ==
    [w EXCEPT !.records = Append(@, [level |-> lvl,
                                     sinks |-> IF lvl >= w.logger.level
                                               THEN Sinks(w, lvl) ELSE {}])]

AddHandler(w, h) ==
    IF InHandlers(w.logger.handlers, h) THEN w
    ELSE [w EXCEPT !.logger.handlers = Append(@, h)]

(* Logger.removeHandler: list.remove drops the first occurrence.           *)
RemoveHandler(w, h) ==
    LET hs == w.logger.handlers
        at == {i \in 1..Len(hs) : hs[i] = h}
    IN IF at = {} THEN w
       ELSE LET k == CHOOSE i \in at : \A j \in at : i <= j
            IN [w EXCEPT !.logger.handlers = SubSeq(hs, 1, k - 1) \o SubSeq(hs, k + 1, Len(hs))]

----------------------------------------------------------------------------
(* The methods of PaPLogger.                                               *)

(* The comparison of the older variant (src/__init__.py), which includes   *)
(* WARNING.                                                                *)
sysout_fmt_name_le(verbose_fmt, level) ==
    IF verbose_fmt \/ level <= WARNING THEN "logfile" ELSE "simple"

sysout_fmt_name(verbose_fmt, level) ==
    IF verbose_fmt \/ level < WARNING THEN "logfile" ELSE "simple"

update_sysout_formatter(w) ==
    LET logged == LoggerLog(Called(w, "_update_sysout_formatter"), DEBUG)
    IN [logged EXCEPT !.sysout.formatter = sysout_fmt_name(w.pap.verbose_fmt, w.pap.level)]

update_logger_level(w) ==
    LET called == Called(w, "_update_logger_level")
    IN IF w.pap.level # w.logger.level
       THEN LoggerLog([called EXCEPT !.logger.level = w.pap.level], DEBUG)
       ELSE called

(* A console level that is only ever raised.                               *)
update_sysout_level_raise_only(w) ==
    LET called == Called(w, "_update_sysout_level")
    IN IF w.sysout.level < w.pap.level
       THEN LoggerLog([called EXCEPT !.sysout.level = w.pap.level], DEBUG)
       ELSE called

update_sysout_level(w) ==
    LET called == Called(w, "_update_sysout_level")
    IN IF w.sysout.level # w.pap.level
       THEN LoggerLog([called EXCEPT !.sysout.level = w.pap.level], DEBUG)
       ELSE called

(* SysLogHandler(address) resolves the host when it is constructed and     *)
(* raises socket.error when that fails.                                    *)
SysLogHandlerRaises(host) == ~Resolves(host)

(* A handler that is created and never passed to addHandler.               *)
add_syslog_handler_unregistered(w) ==
    LET made == [Called(w, "_add_syslog_handler") EXCEPT !.syslog = [created |-> TRUE, level |-> WARNING,
                                      formatter |-> "syslog",
                                      address |-> <<w.pap.syslog_host, w.pap.syslog_port>>]]
    IN LoggerLog(made, DEBUG)

add_syslog_handler(w) ==
    LET made == [Called(w, "_add_syslog_handler") EXCEPT !.syslog = [created |-> TRUE, level |-> WARNING,
                                      formatter |-> "syslog",
                                      address |-> <<w.pap.syslog_host, w.pap.syslog_port>>]]
    IN LoggerLog(AddHandler(made, "syslog"), DEBUG)

(* An update that follows the facade's level, as the file handler's does.  *)
update_syslog_handler_with_level(w) ==
    LET called == Called(w, "_update_syslog_handler")
    IN IF w.syslog.created
       THEN [called EXCEPT !.syslog.address = <<w.pap.syslog_host, w.pap.syslog_port>>,
                           !.syslog.level = w.pap.level]
       ELSE called

update_syslog_handler(w) ==
    LET called == Called(w, "_update_syslog_handler")
    IN IF w.syslog.created
       THEN [called EXCEPT !.syslog.address = <<w.pap.syslog_host, w.pap.syslog_port>>]
       ELSE called

remove_syslog_handler(w) ==
    LET called == Called(w, "_remove_syslog_handler")
    IN IF w.syslog.created
       THEN RemoveHandler(LoggerLog(called, DEBUG), "syslog")
       ELSE called

logfile_fmt_name(with_hostname) ==
    IF with_hostname THEN "logfile_with_host" ELSE "logfile"

update_logfile_formatter(w) ==
    LET called == Called(w, "_update_logfile_formatter")
    IN IF w.logfile.created
       THEN [called EXCEPT !.logfile.formatter = logfile_fmt_name(w.pap.logfile_with_hostname)]
       ELSE called

(* A handler that is built whatever the rotation period is.                *)
add_logfile_handler_unvalidated(w) ==
    LET made == [Called(w, "_add_logfile_handler") EXCEPT !.logfile = [created |-> TRUE, level |-> DEBUG,
                                       formatter |-> "none",
                                       baseFilename |-> w.pap.log_file,
                                       when |-> w.pap.when,
                                       backupCount |-> w.pap.backup_count]]
        added == AddHandler(update_logfile_formatter(made), "logfile")
    IN LoggerLog(LoggerLog(added, DEBUG), DEBUG)

(* TimedRotatingFileHandler(filename, when, backupCount) raises ValueError *)
(* for a rotation period it does not know; the method logs it and returns. *)
add_logfile_handler(w) ==
    IF ~ValidWhen(w.pap.when)
    THEN LoggerLog(Called(w, "_add_logfile_handler"), ERROR)
    ELSE LET made == [Called(w, "_add_logfile_handler") EXCEPT !.logfile = [created |-> TRUE, level |-> DEBUG,
                                            formatter |-> "none",
                                            baseFilename |-> w.pap.log_file,
                                            when |-> w.pap.when,
                                            backupCount |-> w.pap.backup_count]]
             added == AddHandler(update_logfile_formatter(made), "logfile")
         IN LoggerLog(LoggerLog(added, DEBUG), DEBUG)

(* The update of the older variant (src/__init__.py), which repoints the   *)
(* handler and leaves its level.                                           *)
update_logfile_handler_target_only(w) ==
    LET called == Called(w, "_update_logfile_handler")
    IN IF w.logfile.created
       THEN [called EXCEPT !.logfile.baseFilename = w.pap.log_file]
       ELSE called

update_logfile_handler(w) ==
    LET called == Called(w, "_update_logfile_handler")
    IN IF w.logfile.created
       THEN LET levelled == IF w.logfile.level # w.pap.level
                            THEN LoggerLog([called EXCEPT !.logfile.level = w.pap.level], DEBUG)
                            ELSE called
            IN IF levelled.logfile.baseFilename # levelled.pap.log_file
               THEN [levelled EXCEPT !.logfile.baseFilename = levelled.pap.log_file]
               ELSE levelled
       ELSE called

(* A removal that announces itself and leaves the handler on the logger.   *)
remove_logfile_handler_kept(w) ==
    LET called == Called(w, "_remove_logfile_handler")
    IN IF w.logfile.created
       THEN LoggerLog(called, DEBUG)
       ELSE called

remove_logfile_handler(w) ==
    LET called == Called(w, "_remove_logfile_handler")
    IN IF w.logfile.created
       THEN RemoveHandler(LoggerLog(called, DEBUG), "logfile")
       ELSE called

----------------------------------------------------------------------------
(* The property setters.                                                   *)

(* A level setter that stops after the syslog handler.                     *)
level_setter_without_logfile(w, value) ==
    LET stored == [w EXCEPT !.pap.level = value]
        console == update_sysout_level(update_logger_level(update_sysout_formatter(stored)))
    IN IF console.syslog.created THEN update_syslog_handler(console) ELSE console

(* A level setter that updates the file handler before the syslog handler. *)
level_setter_file_before_remote(w, value) ==
    LET stored == [w EXCEPT !.pap.level = value]
        console == update_sysout_level(update_logger_level(update_sysout_formatter(stored)))
        file == IF console.logfile.created THEN update_logfile_handler(console) ELSE console
    IN IF file.syslog.created THEN update_syslog_handler(file) ELSE file

level_setter(w, value) ==
    LET stored == [w EXCEPT !.pap.level = value]
        console == update_sysout_level(update_logger_level(update_sysout_formatter(stored)))
        remote == IF console.syslog.created THEN update_syslog_handler(console) ELSE console
    IN IF remote.logfile.created THEN update_logfile_handler(remote) ELSE remote

(* A setter that re-applies the whole configuration, as the level setter  *)
(* does.                                                                   *)
verbose_fmt_setter_cascading(w, value) ==
    level_setter([w EXCEPT !.pap.verbose_fmt = value], w.pap.level)

verbose_fmt_setter(w, value) ==
    update_sysout_formatter([w EXCEPT !.pap.verbose_fmt = value])

(* A setter that repoints an existing handler before it looks at the      *)
(* directory.                                                              *)
log_file_setter_update_first(w, value) ==
    IF value = NoPath
    THEN [remove_logfile_handler(w) EXCEPT !.pap.log_file = value]
    ELSE LET announced == IF w.pap.log_file # NoPath THEN LoggerLog(w, DEBUG) ELSE w
             stored == update_logfile_handler([announced EXCEPT !.pap.log_file = value])
         IN IF value.parent \notin stored.fs /\ MkdirDenied(value.parent)
            THEN LoggerLog(stored, ERROR)
            ELSE LET ready == [stored EXCEPT !.fs = @ \cup {value.parent}]
                 IN IF ~ready.logfile.created
                    THEN add_logfile_handler(ready)
                    ELSE ready

log_file_setter(w, value) ==
    IF value = NoPath
    THEN [remove_logfile_handler(w) EXCEPT !.pap.log_file = value]
    ELSE LET announced == IF w.pap.log_file # NoPath THEN LoggerLog(w, DEBUG) ELSE w
             stored == [announced EXCEPT !.pap.log_file = value]
         IN IF value.parent \notin stored.fs /\ MkdirDenied(value.parent)
            THEN LoggerLog(stored, ERROR)
            ELSE LET ready == [stored EXCEPT !.fs = @ \cup {value.parent}]
                 IN IF ~ready.logfile.created
                    THEN add_logfile_handler(ready)
                    ELSE update_logfile_handler(ready)

(* A toggle that stores the flag and does not re-apply the file format.    *)
logfile_with_hostname_setter_stale_format(w, value) ==
    IF value = w.pap.logfile_with_hostname THEN w
    ELSE IF w.pap.log_file = NoPath THEN [w EXCEPT !.raised = "AttributeError"]
    ELSE LET old == w.pap.log_file
             renamed == IF value
                        THEN Path(old.parent, HostPrefix \o old.name)
                        ELSE Path(old.parent, StrRemoveAll(old.name, HostPrefix))
             moved == log_file_setter(w, renamed)
         IN [moved EXCEPT !.pap.logfile_with_hostname = value]

(* Both branches read self.log_file.parent, which raises AttributeError    *)
(* out of the setter when log_file is None.                                *)
logfile_with_hostname_setter(w, value) ==
    IF value = w.pap.logfile_with_hostname THEN w
    ELSE IF w.pap.log_file = NoPath THEN [w EXCEPT !.raised = "AttributeError"]
    ELSE LET old == w.pap.log_file
             renamed == IF value
                        THEN Path(old.parent, HostPrefix \o old.name)
                        ELSE Path(old.parent, StrRemoveAll(old.name, HostPrefix))
             moved == log_file_setter(w, renamed)
         IN update_logfile_formatter([moved EXCEPT !.pap.logfile_with_hostname = value])

(* A setter that builds and registers a new handler on every assignment,  *)
(* next to the one it registered before.                                   *)
syslog_host_setter_always_adds(w, value) ==
    IF value = NoHost
    THEN [remove_syslog_handler(w) EXCEPT !.pap.syslog_host = value]
    ELSE LET stored == [w EXCEPT !.pap.syslog_host = value]
         IN IF SysLogHandlerRaises(value)
            THEN LoggerLog(Called(stored, "_add_syslog_handler"), ERROR)
            ELSE LET made == [stored EXCEPT
                                !.syslog = [created |-> TRUE, level |-> WARNING,
                                            formatter |-> "syslog",
                                            address |-> <<value, stored.pap.syslog_port>>],
                                !.logger.handlers = Append(@, "syslog")]
                 IN LoggerLog(Called(made, "_add_syslog_handler"), DEBUG)

(* A setter that builds a handler for every host, whether or not the       *)
(* field already holds one.                                                *)
syslog_host_setter_recreating(w, value) ==
    IF value = NoHost
    THEN [remove_syslog_handler(w) EXCEPT !.pap.syslog_host = value]
    ELSE LET stored == [w EXCEPT !.pap.syslog_host = value]
         IN IF SysLogHandlerRaises(value)
            THEN LoggerLog(Called(stored, "_add_syslog_handler"), ERROR)
            ELSE add_syslog_handler(stored)

syslog_host_setter(w, value) ==
    IF value = NoHost
    THEN [remove_syslog_handler(w) EXCEPT !.pap.syslog_host = value]
    ELSE LET stored == [w EXCEPT !.pap.syslog_host = value]
         IN IF ~stored.syslog.created
            THEN IF SysLogHandlerRaises(value)
                 THEN LoggerLog(Called(stored, "_add_syslog_handler"), ERROR)
                 ELSE add_syslog_handler(stored)
            ELSE update_syslog_handler(stored)

syslog_port_setter(w, value) ==
    LET stored == [w EXCEPT !.pap.syslog_port = value]
    IN IF stored.syslog.created THEN update_syslog_handler(stored) ELSE stored

(* PaPLogger.__init__ after logging.config.dictConfig(_get_logging_dict()) *)
(* has left the root logger at WARNING with the one 'sysout' handler.      *)
Configured(verbose_fmt, with_hostname, when, backup_count) ==
    [pap |-> [level |-> NOTSET, verbose_fmt |-> verbose_fmt,
              logfile_with_hostname |-> with_hostname, when |-> when,
              backup_count |-> backup_count, log_file |-> NoPath,
              syslog_host |-> NoHost, syslog_port |-> DefaultPort],
     logger |-> [level |-> WARNING, handlers |-> <<"sysout">>],
     sysout |-> [level |-> NOTSET, formatter |-> "simple"],
     logfile |-> NoLogfileHandler,
     syslog |-> NoSyslogHandler,
     fs |-> {},
     records |-> <<>>,
     calls |-> <<>>,
     raised |-> "none"]

(* A constructor that leaves the level of the configuration dictionary.   *)
init_default_level(level, verbose_fmt, with_hostname, when, backup_count) ==
    LET w == level_setter(Configured(verbose_fmt, with_hostname, when, backup_count), WARNING)
    IN update_sysout_level(update_logger_level(update_sysout_formatter(w)))

init(level, verbose_fmt, with_hostname, when, backup_count) ==
    LET w == level_setter(Configured(verbose_fmt, with_hostname, when, backup_count),
                          IF level # NOTSET THEN level ELSE WARNING)
    IN update_sysout_level(update_logger_level(update_sysout_formatter(w)))

----------------------------------------------------------------------------
(* The state machine: one action per call a client can make.               *)

(* What the last call did, as far as a client can observe it: the         *)
(* exception that left the call, the (level, sink) pairs of the records it *)
(* emitted, the number of logger.error calls it made and the number of     *)
(* those that the console handler emitted, and whether a property of the   *)
(* facade has a new value; and the private methods it called, in order.    *)
Outcome(op, before, w) ==
    LET errs == SelectSeq(w.records, LAMBDA r : r.level = ERROR)
    IN [op |-> op, raised |-> w.raised, changed |-> w.pap # before,
        emitted |-> UNION {{<<w.records[i].level, s>> : s \in w.records[i].sinks} :
                              i \in 1..Len(w.records)},
        calls |-> w.calls,
        errors |-> Len(errs),
        console_errors |-> Len(SelectSeq(errs, LAMBDA r : "sysout" \in r.sinks))]

Commit(op, w) ==
    /\ pap' = w.pap
    /\ logger' = w.logger
    /\ sysout_handler' = w.sysout
    /\ logfile_handler' = w.logfile
    /\ syslog_handler' = w.syslog
    /\ fs' = w.fs
    /\ out' = Outcome(op, pap, w)

Init ==
    \E level \in Levels \cup {NOTSET}, verbose_fmt \in BOOLEAN,
       with_hostname \in BOOLEAN, when \in Whens :
        LET w == init(level, verbose_fmt, with_hostname, when, DefaultBackupCount)
        IN /\ pap = w.pap
           /\ logger = w.logger
           /\ sysout_handler = w.sysout
           /\ logfile_handler = w.logfile
           /\ syslog_handler = w.syslog
           /\ fs = w.fs
           /\ out = Outcome("init", w.pap, w)

SetLevel == \E value \in Levels : Commit("level", level_setter(World, value))

SetVerboseFmt == \E value \in BOOLEAN : Commit("verbose_fmt", verbose_fmt_setter(World, value))

SetLogfileWithHostname ==
    \E value \in BOOLEAN :
        Commit("logfile_with_hostname", logfile_with_hostname_setter(World, value))

SetLogFile ==
    \E value \in InputPaths \cup {NoPath} : Commit("log_file", log_file_setter(World, value))

SetSyslogHost ==
    \E value \in Hosts \cup {NoHost} : Commit("syslog_host", syslog_host_setter(World, value))

SetSyslogPort == \E value \in Ports : Commit("syslog_port", syslog_port_setter(World, value))

(* A client logging through pap.logger at one of the five levels.          *)
Log == \E lvl \in Levels : Commit("log", LoggerLog(World, lvl))

Next ==
    \/ SetLevel
    \/ SetVerboseFmt
    \/ SetLogfileWithHostname
    \/ SetLogFile
    \/ SetSyslogHost
    \/ SetSyslogPort
    \/ Log

Spec == Init /\ [][Next]_vars

TypeOK ==
    /\ pap.level \in Levels
    /\ logger.level \in Levels
    /\ sysout_handler.level \in Levels

Attached(h) == InHandlers(logger.handlers, h)

Count(handlers, h) == Cardinality({i \in 1..Len(handlers) : handlers[i] = h})

(* sub in s, for strings.                                                  *)
RECURSIVE Contains(_, _)
Contains(s, sub) ==
    IF Len(s) < Len(sub) THEN FALSE
    ELSE IsPrefixOf(sub, s) \/ Contains(Tail(s), sub)

----------------------------------------------------------------------------
(* C1: enabling the file sink again after it was disabled (log_file = p,   *)
(* log_file = None, log_file = p, none of them failing) leaves the file    *)
(* handler registered on the logger, with the rotation period and backup   *)
(* count given at construction.                                            *)
C1_EnableDisableEnable ==
    [][(/\ pap.log_file = NoPath
        /\ logfile_handler.created
        /\ out'.op = "log_file"
        /\ pap'.log_file # NoPath
        /\ pap'.log_file = logfile_handler.baseFilename
        /\ out'.errors = 0
        /\ out'.raised = "none")
       => (/\ InHandlers(logger'.handlers, "logfile")
           /\ logfile_handler'.when = pap.when
           /\ logfile_handler'.backupCount = pap.backup_count)]_vars

(* C2: after syslog_host has been assigned a host that resolves, without   *)
(* an error, a remote sink is registered on the logger with the address    *)
(* (syslog_host, syslog_port), also when a sink was detached before.       *)
C2_HostImpliesSink ==
    (/\ out.op = "syslog_host"
     /\ pap.syslog_host # NoHost
     /\ Resolves(pap.syslog_host)
     /\ out.errors = 0
     /\ out.raised = "none")
    => (/\ Attached("syslog")
        /\ syslog_handler.address = <<pap.syslog_host, pap.syslog_port>>)

(* C3: when the level setter has returned, the console handler's level is  *)
(* the level property, whatever calls came before.                         *)
C3_ConsoleLevelIsLevel ==
    out.op = "level" => sysout_handler.level = pap.level

C3_Witness ==
    /\ out.op = "level"
    /\ out.changed
    /\ pap.level = CRITICAL
    /\ sysout_handler.level = CRITICAL
    /\ logfile_handler.created
    /\ syslog_handler.created

(* C4 as claimed: the console format is 'logfile' if verbose_fmt is set or *)
(* the level is DEBUG, INFO or WARNING, and 'simple' otherwise.            *)
C4_RichAtWarning ==
    sysout_handler.formatter =
        IF pap.verbose_fmt \/ pap.level \in {DEBUG, INFO, WARNING}
        THEN "logfile" ELSE "simple"

(* C4 amended: the console format is 'logfile' if verbose_fmt is set or    *)
(* the level is DEBUG or INFO, and 'simple' if verbose_fmt is not set and  *)
(* the level is WARNING, ERROR or CRITICAL.                                *)
C4_SimpleAtWarning ==
    /\ (pap.verbose_fmt \/ pap.level \in {DEBUG, INFO})
            => sysout_handler.formatter = "logfile"
    /\ (~pap.verbose_fmt /\ pap.level \in {WARNING, ERROR, CRITICAL})
            => sysout_handler.formatter = "simple"

C4_Witness ==
    /\ out.op = "level"
    /\ out.changed
    /\ pap.level = WARNING
    /\ ~pap.verbose_fmt
    /\ sysout_handler.formatter = "simple"

(* C5: with a file sink attached, setting logfile_with_hostname to True    *)
(* and then to False gives log_file the value it had before the two calls, *)
(* i.e. the name loses exactly the prefix that the first call put on.      *)
C5_ToggleRoundTrip ==
    [][(/\ out.op = "logfile_with_hostname"
        /\ out.changed
        /\ pap.logfile_with_hostname
        /\ Attached("logfile")
        /\ out'.op = "logfile_with_hostname"
        /\ ~pap'.logfile_with_hostname)
       => pap'.log_file =
            Path(pap.log_file.parent,
                 SubSeq(pap.log_file.name, Len(HostPrefix) + 1, Len(pap.log_file.name)))]_vars

(* C6: setting logfile_with_hostname to the other value while log_file is  *)
(* None does not raise and changes the stored flag only.                   *)
C6_FlagOnlyWithoutPath ==
    [][\A value \in BOOLEAN :
        (/\ pap.log_file = NoPath
         /\ value # pap.logfile_with_hostname
         /\ Commit("logfile_with_hostname", logfile_with_hostname_setter(World, value)))
        => (/\ out'.raised = "none"
            /\ pap' = [pap EXCEPT !.logfile_with_hostname = value]
            /\ logger'.handlers = logger.handlers)]_vars

(* C7: while no remote sink has been created, assigning a syslog_host that *)
(* does not resolve does not raise and attaches nothing; the assignment of *)
(* a host that resolves right after it leaves exactly one remote sink on   *)
(* the logger, with the address (syslog_host, syslog_port).                *)
C7_RecoverFromUnknownHost ==
    [][/\ (/\ ~syslog_handler.created
           /\ out'.op = "syslog_host"
           /\ pap'.syslog_host # NoHost
           /\ ~Resolves(pap'.syslog_host))
          => (/\ out'.raised = "none"
              /\ ~syslog_handler'.created
              /\ Count(logger'.handlers, "syslog") = 0)
       /\ (/\ out.op = "syslog_host"
           /\ pap.syslog_host # NoHost
           /\ ~Resolves(pap.syslog_host)
           /\ ~syslog_handler.created
           /\ out'.op = "syslog_host"
           /\ pap'.syslog_host # NoHost
           /\ Resolves(pap'.syslog_host))
          => (/\ out'.raised = "none"
              /\ Count(logger'.handlers, "syslog") = 1
              /\ syslog_handler'.created
              /\ syslog_handler'.address = <<pap'.syslog_host, pap'.syslog_port>>)]_vars

C7_Witness ==
    /\ out.op = "syslog_host"
    /\ pap.syslog_host = "unknown"
    /\ ~syslog_handler.created
    /\ ~Attached("syslog")
    /\ out.errors = 1
    /\ out.raised = "none"

(* C8: assigning a syslog_host that does not resolve while a remote sink   *)
(* is attached logs an error, and leaves the sink with its address or      *)
(* detached.                                                               *)
C8_UnknownHostOnAttachedSink ==
    [][(/\ syslog_handler.created
        /\ Attached("syslog")
        /\ Resolves(syslog_handler.address[1])
        /\ out'.op = "syslog_host"
        /\ pap'.syslog_host # NoHost
        /\ ~Resolves(pap'.syslog_host))
       => (/\ out'.errors >= 1
           /\ \/ syslog_handler'.address = syslog_handler.address
              \/ ~InHandlers(logger'.handlers, "syslog"))]_vars

(* C9: a log_file or syslog_host assignment whose sink creation failed     *)
(* (directory not creatable, rotation period rejected, host not resolved)  *)
(* has made exactly one logger.error call, and the console handler has     *)
(* emitted it, at every level.                                             *)
C9_FailureIsReported ==
    (\/ /\ out.op = "log_file"
        /\ pap.log_file # NoPath
        /\ \/ (pap.log_file.parent \notin fs /\ MkdirDenied(pap.log_file.parent))
           \/ (~logfile_handler.created /\ ~ValidWhen(pap.when))
     \/ /\ out.op = "syslog_host"
        /\ pap.syslog_host # NoHost
        /\ ~syslog_handler.created
        /\ SysLogHandlerRaises(pap.syslog_host))
    => (out.errors = 1 /\ out.console_errors = 1)

(* C10: a remote sink that exists has level WARNING, and no record below   *)
(* WARNING is emitted by it, whatever the level of the facade.             *)
C10_RemoteLevelIsWarning ==
    /\ syslog_handler.created => syslog_handler.level = WARNING
    /\ \A lvl \in {DEBUG, INFO} : <<lvl, "syslog">> \notin out.emitted

C10_Witness ==
    /\ out.op = "log"
    /\ pap.level = DEBUG
    /\ Attached("syslog")
    /\ syslog_handler.address # <<"loghost", DefaultPort>>
    /\ out.emitted = {<<DEBUG, "sysout">>}


(* C11: the logger holds exactly one console handler, at most one file     *)
(* handler and at most one syslog handler, whatever was assigned.          *)
C11_OneHandlerPerKind ==
    /\ Count(logger.handlers, "sysout") = 1
    /\ Count(logger.handlers, "logfile") <= 1
    /\ Count(logger.handlers, "syslog") <= 1
    /\ Len(logger.handlers) <= 3

(* Both sinks were attached and assigned again: a handler that the last    *)
(* call created has level DEBUG (file) and the address of a host that      *)
(* resolves (syslog).                                                      *)
C11_Witness ==
    /\ out.op = "syslog_host"
    /\ Attached("syslog")
    /\ syslog_handler.address = <<"unknown", DefaultPort>>
    /\ Attached("logfile")
    /\ logfile_handler.level = ERROR
    /\ logfile_handler.baseFilename = Path("d", HostPrefix \o BaseName)

(* C12: log_file = None does not raise, leaves log_file None and no file   *)
(* handler on the logger, and leaves the console and syslog handlers and   *)
(* the attachment of the syslog handler as they were; no state has         *)
(* log_file None and a file handler on the logger.                         *)
C12_ClearLogFile ==
    [][/\ pap'.log_file = NoPath => ~InHandlers(logger'.handlers, "logfile")
       /\ (out'.op = "log_file" /\ pap'.log_file = NoPath)
          => (/\ out'.raised = "none"
              /\ sysout_handler' = sysout_handler
              /\ syslog_handler' = syslog_handler
              /\ logger'.level = logger.level
              /\ InHandlers(logger'.handlers, "sysout")
              /\ InHandlers(logger'.handlers, "syslog") = InHandlers(logger.handlers, "syslog"))]_vars

C12_Witness ==
    /\ out.op = "log_file"
    /\ out.changed
    /\ pap.log_file = NoPath
    /\ logfile_handler.created
    /\ ~Attached("logfile")
    /\ Attached("syslog")

(* C13: a log_file assignment whose directory cannot be created does not   *)
(* raise and leaves the file handler (target, level, format, attachment),  *)
(* the level, the console handler and the syslog handler as they were.     *)
C13_MkdirDeniedKeepsSink ==
    [][(/\ out'.op = "log_file"
        /\ pap'.log_file # NoPath
        /\ pap'.log_file.parent \notin fs
        /\ MkdirDenied(pap'.log_file.parent))
       => (/\ out'.raised = "none"
           /\ logfile_handler' = logfile_handler
           /\ logger' = logger
           /\ sysout_handler' = sysout_handler
           /\ syslog_handler' = syslog_handler
           /\ pap'.level = pap.level)]_vars

C13_Witness ==
    /\ out.op = "log_file"
    /\ pap.log_file = Path("x", BaseName)
    /\ out.errors = 1
    /\ out.raised = "none"
    /\ Attached("logfile")
    /\ logfile_handler.baseFilename = Path("d", BaseName)
    /\ logfile_handler.level = INFO

(* C14: with a rotation period that TimedRotatingFileHandler rejects,      *)
(* every assignment of a path to log_file returns without raising, makes   *)
(* one logger.error call, leaves no file handler created or attached, and  *)
(* leaves log_file equal to the assigned path.                             *)
C14_InvalidRotationPeriod ==
    [][(out'.op = "log_file" /\ ~ValidWhen(pap.when))
       => \A value \in InputPaths :
            Commit("log_file", log_file_setter(World, value))
            => (/\ out'.raised = "none"
                /\ out'.errors = 1
                /\ ~logfile_handler'.created
                /\ ~InHandlers(logger'.handlers, "logfile")
                /\ pap'.log_file = value)]_vars

C14_Witness ==
    /\ out.op = "log_file"
    /\ ~ValidWhen(pap.when)
    /\ pap.log_file = Path("d", BaseName)
    /\ "d" \in fs
    /\ out.errors = 1
    /\ out.raised = "none"
    /\ ~Attached("logfile")

(* C15: a verbose_fmt assignment changes the stored flag and the console   *)
(* handler's format and nothing else.                                      *)
C15_VerboseFmtFrame ==
    [][out'.op = "verbose_fmt"
       => (/\ pap' = [pap EXCEPT !.verbose_fmt = pap'.verbose_fmt]
           /\ logger' = logger
           /\ sysout_handler' = [sysout_handler EXCEPT !.formatter = sysout_handler'.formatter]
           /\ logfile_handler' = logfile_handler
           /\ syslog_handler' = syslog_handler
           /\ fs' = fs)]_vars

C15_Witness ==
    /\ out.op = "verbose_fmt"
    /\ out.changed
    /\ pap.verbose_fmt
    /\ pap.level = ERROR
    /\ sysout_handler.formatter = "logfile"
    /\ Attached("logfile")
    /\ logfile_handler.level = DEBUG
    /\ Attached("syslog")

(* C16: right after construction with level argument L (WARNING for        *)
(* NOTSET), the level property, the logger's level and the console         *)
(* handler's level are L, the console handler is the only handler,         *)
(* log_file and syslog_host are None and syslog_port is 514.               *)
C16_AfterConstruction ==
    out.op = "init"
    => /\ \A level \in Levels \cup {NOTSET} :
            init(level, pap.verbose_fmt, pap.logfile_with_hostname,
                 pap.when, pap.backup_count).pap = pap
            => pap.level = IF level = NOTSET THEN WARNING ELSE level
       /\ logger.level = pap.level
       /\ sysout_handler.level = pap.level
       /\ logger.handlers = <<"sysout">>
       /\ pap.log_file = NoPath
       /\ pap.syslog_host = NoHost
       /\ pap.syslog_port = 514

C16_Witness ==
    /\ out.op = "init"
    /\ pap.level = DEBUG
    /\ logger.level = DEBUG
    /\ sysout_handler.level = DEBUG
    /\ logger.handlers = <<"sysout">>

(* C17: when the level setter has returned, the logger's level is the new  *)
(* level, and so is the level of an attached file handler.                 *)
C17_NoStaleLevel ==
    out.op = "level"
    => /\ logger.level = pap.level
       /\ Attached("logfile") => logfile_handler.level = pap.level

C17_Witness ==
    /\ out.op = "level"
    /\ out.changed
    /\ pap.level = INFO
    /\ logger.level = INFO
    /\ Attached("logfile")
    /\ logfile_handler.level = INFO

C19_FileFormatFollowsFlag ==
    Attached("logfile")
    => logfile_handler.formatter =
         IF pap.logfile_with_hostname THEN "logfile_with_host" ELSE "logfile"

C19_Witness ==
    /\ out.op = "logfile_with_hostname"
    /\ out.changed
    /\ pap.logfile_with_hostname
    /\ Attached("logfile")
    /\ logfile_handler.formatter = "logfile_with_host"
    /\ logfile_handler.level = WARNING

(* C20: after log_file has been assigned a path whose name does not hold   *)
(* the hostname prefix, the name of log_file starts with "<hostname>_" if  *)
(* and only if logfile_with_hostname is set.                               *)
C20_PrefixIffFlag ==
    [][out'.op = "log_file"
       => \A value \in InputPaths :
            (/\ ~Contains(value.name, HostPrefix)
             /\ Commit("log_file", log_file_setter(World, value)))
            => (IsPrefixOf(HostPrefix, pap'.log_file.name) <=> pap'.logfile_with_hostname)]_vars

(* C21: whenever a file handler is on the logger, log_file is the file the *)
(* handler writes to, also after a log_file assignment whose directory     *)
(* could not be created.                                                   *)
C21_LogFileIsTarget ==
    Attached("logfile") => logfile_handler.baseFilename = pap.log_file

(* C22: whenever a syslog handler is on the logger, its address is         *)
(* (syslog_host, syslog_port); a syslog_host or syslog_port assignment     *)
(* made while the handler is on the logger, other than syslog_host = None, *)
(* changes nothing of the handler but its address, leaves the logger's     *)
(* handlers as they were and logs nothing, as building a handler would.    *)
C22_AddressFollowsHostAndPort ==
    [][/\ InHandlers(logger'.handlers, "syslog")
          => syslog_handler'.address = <<pap'.syslog_host, pap'.syslog_port>>
       /\ (/\ out'.op \in {"syslog_host", "syslog_port"}
           /\ pap'.syslog_host # NoHost
           /\ InHandlers(logger.handlers, "syslog"))
          => (/\ syslog_handler' = [syslog_handler EXCEPT
                                      !.address = <<pap'.syslog_host, pap'.syslog_port>>]
              /\ logger' = logger
              /\ out'.emitted = {}
              /\ out'.errors = 0)]_vars

C22_Witness ==
    /\ out.op = "syslog_port"
    /\ out.changed
    /\ out.emitted = {}
    /\ pap.level = DEBUG
    /\ pap.syslog_host = "loghost"
    /\ pap.syslog_port = DefaultPort + 1
    /\ Attached("syslog")
    /\ syslog_handler.address = <<"loghost", DefaultPort + 1>>

(* C23: a level assignment stores the level and then calls                 *)
(* _update_sysout_formatter, _update_logger_level, _update_sysout_level,   *)
(* _update_syslog_handler if the field holds a syslog handler, and         *)
(* _update_logfile_handler if the field holds a file handler, in this      *)
(* order and nothing else; the store comes first, so the format and the    *)
(* two levels are those of the new level.  The constructor's level         *)
(* assignment starts the same way.                                         *)
C23_LevelSetterOrder ==
    /\ out.op = "level"
       => /\ out.calls = <<"_update_sysout_formatter", "_update_logger_level",
                           "_update_sysout_level">>
                         \o (IF syslog_handler.created
                             THEN <<"_update_syslog_handler">> ELSE <<>>)
                         \o (IF logfile_handler.created
                             THEN <<"_update_logfile_handler">> ELSE <<>>)
          /\ sysout_handler.formatter = sysout_fmt_name(pap.verbose_fmt, pap.level)
          /\ logger.level = pap.level
          /\ sysout_handler.level = pap.level
    /\ out.op = "init"
       => SubSeq(out.calls, 1, 3) = <<"_update_sysout_formatter", "_update_logger_level",
                                      "_update_sysout_level">>

C23_Witness ==
    /\ out.op = "level"
    /\ out.changed
    /\ out.calls = <<"_update_sysout_formatter", "_update_logger_level",
                     "_update_sysout_level", "_update_syslog_handler",
                     "_update_logfile_handler">>
    /\ pap.level = DEBUG
    /\ Attached("syslog")
    /\ Attached("logfile")
    /\ logfile_handler.level = DEBUG

----------------------------------------------------------------------------
(* The older variant of the class, src/__init__.py: its constructor and    *)
(* the two setters that need no sink.  The attributes of the facade are    *)
(* the fields of pap; an attribute that has not been assigned yet is not   *)
(* in its domain, and reading it raises AttributeError.                    *)

SetAttr(obj, name, value) ==
    [f \in DOMAIN obj \cup {name} |-> IF f = name THEN value ELSE obj[f]]

legacy_sysout_fmt_name(verbose_fmt, level) ==
    IF verbose_fmt \/ level <= WARNING THEN "logfile" ELSE "simple"

legacy_update_sysout_formatter(w) ==
    LET called == Called(w, "_update_sysout_formatter")
    IN IF "verbose_fmt" \notin DOMAIN w.pap
       THEN [called EXCEPT !.raised = "AttributeError"]
       ELSE [called EXCEPT !.sysout.formatter =
                               legacy_sysout_fmt_name(w.pap.verbose_fmt, w.pap.level)]

legacy_update_logger_level(w) ==
    LoggerLog([Called(w, "_update_logger_level") EXCEPT !.logger.level = w.pap.level], INFO)

legacy_update_sysout_level(w) ==
    LoggerLog([Called(w, "_update_sysout_level") EXCEPT !.sysout.level = w.pap.level], INFO)

legacy_update_logfile_handler(w) ==
    LET called == Called(w, "_update_logfile_handler")
    IN IF w.logfile.created
       THEN [called EXCEPT !.logfile.baseFilename = w.pap.log_file]
       ELSE called

legacy_level_setter(w, value) ==
    LET stored == [w EXCEPT !.pap = SetAttr(@, "level", value)]
        formatted == legacy_update_sysout_formatter(stored)
        console == legacy_update_sysout_level(legacy_update_logger_level(formatted))
        remote == IF console.syslog.created THEN update_syslog_handler(console) ELSE console
    IN IF formatted.raised # "none" THEN formatted
       ELSE IF remote.logfile.created THEN legacy_update_logfile_handler(remote) ELSE remote

legacy_verbose_fmt_setter(w, value) ==
    legacy_update_sysout_formatter([w EXCEPT !.pap = SetAttr(@, "verbose_fmt", value)])

(* __init__ runs the level setter for a level argument that is not None    *)
(* before it assigns any other attribute, then assigns them all, _level    *)
(* to WARNING among them.                                                  *)
legacy_init(level, verbose_fmt, with_hostname, when, backup_count) ==
    LET configured == [Configured(verbose_fmt, with_hostname, when, backup_count)
                         EXCEPT !.pap = <<>>]
        assigned == IF level # NOTSET THEN legacy_level_setter(configured, level)
                    ELSE configured
        built == [assigned EXCEPT
                    !.pap = [level |-> WARNING, verbose_fmt |-> verbose_fmt,
                             logfile_with_hostname |-> with_hostname, when |-> when,
                             backup_count |-> backup_count, log_file |-> NoPath,
                             syslog_host |-> NoHost, syslog_port |-> DefaultPort]]
    IN IF assigned.raised # "none" THEN assigned
       ELSE legacy_update_sysout_level(
                legacy_update_logger_level(legacy_update_sysout_formatter(built)))

LegacyInit ==
    \E level \in Levels \cup {NOTSET}, verbose_fmt \in BOOLEAN,
       with_hostname \in BOOLEAN, when \in Whens :
        LET w == legacy_init(level, verbose_fmt, with_hostname, when, DefaultBackupCount)
        IN /\ pap = w.pap
           /\ logger = w.logger
           /\ sysout_handler = w.sysout
           /\ logfile_handler = w.logfile
           /\ syslog_handler = w.syslog
           /\ fs = w.fs
           /\ out = Outcome("init", w.pap, w)

(* There is a facade to call only if its constructor returned.             *)
LegacyConstructed == ~(out.op = "init" /\ out.raised # "none")

LegacySetLevel ==
    /\ LegacyConstructed
    /\ \E value \in Levels : Commit("level", legacy_level_setter(World, value))

LegacySetVerboseFmt ==
    /\ LegacyConstructed
    /\ \E value \in BOOLEAN : Commit("verbose_fmt", legacy_verbose_fmt_setter(World, value))

LegacyNext ==
    \/ LegacySetLevel
    \/ LegacySetVerboseFmt

LegacySpec == LegacyInit /\ [][LegacyNext]_vars

(* C24: in the older variant, a construction with a level argument L       *)
(* returns without raising and leaves the level property, the logger's     *)
(* level and the console handler's level at L.                             *)
C24_LegacyExplicitLevel ==
    out.op = "init"
    => \A level \in Levels, verbose_fmt \in BOOLEAN,
          with_hostname \in BOOLEAN, when \in Whens :
         LET w == legacy_init(level, verbose_fmt, with_hostname, when, DefaultBackupCount)
         IN (/\ w.pap = pap
             /\ w.logger = logger
             /\ w.sysout = sysout_handler
             /\ w.raised = out.raised)
            => (/\ out.raised = "none"
                /\ pap.level = level
                /\ logger.level = level
                /\ sysout_handler.level = level)

====
